---- MODULE Spec2Model ----
(***************************************************************************)
(* Model of progressbar (`pb`): src/src/progressbar/__init__.py.           *)
(*                                                                         *)
(* PBar.run streams the files named on the command line (or standard       *)
(* input) to standard output through a tqdm progress bar.  The module      *)
(* models run(), the two reader generators read_bytes / read_lines, the    *)
(* iter_stream generator, check_filepaths, buff_size_in_bytes, get_total   *)
(* and pb_stream.                                                          *)
(*                                                                         *)
(* Spec      : one run of the pipeline from a bounded set of command lines *)
(*             and file contents.                                          *)
(* SpecParse : the two string parsers applied to every short string.       *)
(***************************************************************************)
EXTENDS Integers, Sequences, FiniteSets, TLC

VARIABLES
    paths,          \* self.paths: [none |-> is None, list |-> the list]
    feed_mode,      \* self.feed_mode
    buff_size,      \* self.buff_size, a string (sequence of characters)
    total,          \* self.total: [some |-> not None, text |-> the string]
    logging_level,  \* self.logging_level
    delay,          \* self.delay, seconds
    stderr_tty,     \* sys.stderr.isatty()
    files,          \* the regular files of the file system and their bytes
    stdin_data,     \* the bytes waiting on standard input
    pc,             \* position of run()
    error,          \* message of the exception raised, "none" when none
    errArg,         \* the argument the message names
    log_level,      \* log.level
    bar,            \* the tqdm object: "none", "active", "closed"
    bar_total,      \* total= handed to tqdm
    disable,        \* tqdm.disable
    drawn,          \* progress bytes have been written to standard error
    description,    \* last argument of progress.set_description
    advanced,       \* sum of the arguments of progress.update
    reader,         \* generator of read_bytes / read_lines
    streams,        \* generator of iter_stream
    cur,            \* index of the stream iter_stream has yielded
    pos,            \* bytes consumed from the current stream
    handles,        \* indices of paths whose file object is open
    opens,          \* number of open() calls made
    readLog,        \* every byte stream.read has returned, in order
    pending,        \* the chunk the reader has yielded and run() has not written
    out,            \* bytes written to sys.stdout.buffer
    buff_cache,     \* cached_property buff_size_in_bytes
    ptext,          \* SpecParse: the string parsed
    ptable,         \* SpecParse: the table used
    presult         \* SpecParse: the outcome

vars == <<paths, feed_mode, buff_size, total, logging_level, delay, stderr_tty,
          files, stdin_data, pc, error, errArg, log_level, bar, bar_total,
          disable, drawn, description, advanced, reader, streams, cur, pos,
          handles, opens, readLog, pending, out, buff_cache,
          ptext, ptable, presult>>

cfgvars == <<feed_mode, buff_size, total, logging_level, delay, stderr_tty,
             files, stdin_data>>

parsevars == <<ptext, ptable, presult>>

-----------------------------------------------------------------------------
(* Bounds *)

MaxPaths == 2
MaxLen == 3
MaxTextLen == 3

-----------------------------------------------------------------------------
(* Values *)

NL == 10

Bytes == {NL, 120}

SeqsUpTo(S, n) == UNION {[1..k -> S] : k \in 0..n}

Contents == SeqsUpTo(Bytes, MaxLen)

ExistingFiles == {"a", "b"}

PathNames == ExistingFiles \cup {"x", "-"}

SampleContent == <<120>>

Min(a, b) == IF a < b THEN a ELSE b

\* Python integers are unbounded; a product value * scale is kept in the
\* factored form coef * base^exp, which TLC's 32-bit integers can hold.
Num(c, b, e) == [coef |-> c, base |-> b, exp |-> e]

Plain(n) == Num(n, 1, 0)

IntResult(n) == [kind |-> "int", val |-> n]

NoneResult == [kind |-> "None", val |-> Plain(0)]

Raise(msg) == [kind |-> msg, val |-> Plain(0)]

IsError(r) == r.kind \notin {"int", "None"}

-----------------------------------------------------------------------------
(* Strings: str.lower, [0-9], [a-z], int() *)

DigitChars == <<"0", "1", "2", "3", "4", "5", "6", "7", "8", "9">>

LowerChars == <<"a", "b", "c", "d", "e", "f", "g", "h", "i", "j", "k", "l", "m",
                "n", "o", "p", "q", "r", "s", "t", "u", "v", "w", "x", "y", "z">>

UpperChars == <<"A", "B", "C", "D", "E", "F", "G", "H", "I", "J", "K", "L", "M",
                "N", "O", "P", "Q", "R", "S", "T", "U", "V", "W", "X", "Y", "Z">>

IsDigit(c) == \E i \in DOMAIN DigitChars : DigitChars[i] = c

IsLower(c) == \E i \in DOMAIN LowerChars : LowerChars[i] = c

DigitVal(c) == (CHOOSE i \in DOMAIN DigitChars : DigitChars[i] = c) - 1

LowerChar(c) ==
    IF \E i \in DOMAIN UpperChars : UpperChars[i] = c
    THEN LowerChars[CHOOSE i \in DOMAIN UpperChars : UpperChars[i] = c]
    ELSE c

Lower(s) == [i \in DOMAIN s |-> LowerChar(s[i])]

RECURSIVE IntOf(_)
IntOf(ds) ==
    IF ds = <<>> THEN 0
    ELSE 10 * IntOf(SubSeq(ds, 1, Len(ds) - 1)) + DigitVal(ds[Len(ds)])

\* `$` matches at the end of the string and before a newline that ends it.
BeforeDollar(s) ==
    IF Len(s) > 0 /\ s[Len(s)] = "\n" THEN SubSeq(s, 1, Len(s) - 1) ELSE s

\* [0-9]+ is greedy: the longest prefix of digits.
DigitPrefixLen(s) ==
    CHOOSE k \in 0..Len(s) :
        /\ \A i \in 1..k : IsDigit(s[i])
        /\ (k < Len(s) => ~IsDigit(s[k + 1]))

\* re.match('^(?P<value>[0-9]+)(?P<unit>[a-z]?)(b)?$', s)
BuffMatch(s) ==
    LET e == BeforeDollar(s)
        k == DigitPrefixLen(e)
        rest == SubSeq(e, k + 1, Len(e))
    IN  [matched |-> /\ k >= 1
                     /\ \/ rest = <<>>
                        \/ Len(rest) = 1 /\ IsLower(rest[1])
                        \/ Len(rest) = 2 /\ IsLower(rest[1]) /\ rest[2] = "b",
         value |-> SubSeq(e, 1, k),
         unit |-> IF rest = <<>> THEN "" ELSE rest[1]]

\* re.match('^(?P<value>[0-9]+)(?P<suffix>[a-z])?$', s)
TotalMatch(s) ==
    LET e == BeforeDollar(s)
        k == DigitPrefixLen(e)
        rest == SubSeq(e, k + 1, Len(e))
    IN  [matched |-> /\ k >= 1
                     /\ \/ rest = <<>>
                        \/ Len(rest) = 1 /\ IsLower(rest[1]),
         value |-> SubSeq(e, 1, k),
         unit |-> IF rest = <<>> THEN "" ELSE rest[1]]

BYTE_SCALE ==
    [u \in {"", "k", "m", "g"} |->
        CASE u = ""  -> Num(1, 1, 0)
          [] u = "k" -> Num(1, 1024, 1)
          [] u = "m" -> Num(1, 1024, 2)
          [] u = "g" -> Num(1, 1024, 3)]

COUNT_SCALE ==
    [u \in {"", "k", "m", "b", "g", "t"} |->
        CASE u = ""  -> Num(1, 1, 0)
          [] u = "k" -> Num(1, 1000, 1)
          [] u = "m" -> Num(1, 1000, 2)
          [] u = "b" -> Num(1, 1000, 3)
          [] u = "g" -> Num(1, 1000, 3)
          [] u = "t" -> Num(1, 1000, 4)]

\* value * scale
Times(value, scale) == Num(value * scale.coef, scale.base, scale.exp)

\* PBar.buff_size_in_bytes, for self.buff_size = text
BuffSizeInBytes(text) ==
    LET m == BuffMatch(Lower(text))
    IN  IF m.matched
        THEN IF m.unit \in DOMAIN BYTE_SCALE
             THEN IntResult(Times(IntOf(m.value), BYTE_SCALE[m.unit]))
             ELSE IF m.unit \in {"g", "t", "p"}
                  THEN Raise("Buffer size too large")
                  ELSE Raise("Unrecognized buffer size")
        ELSE Raise("Unrecognized buffer size")

Truthy(p) == ~p.none /\ p.list # <<>>

\* PBar.get_size
GetSize(path) == Len(files[path])

RECURSIVE SumSizes(_)
SumSizes(list) ==
    IF list = <<>> THEN 0 ELSE GetSize(Head(list)) + SumSizes(Tail(list))

\* PBar.get_total, for self.total = tot, self.paths = p, self.feed_mode = mode
GetTotal(tot, p, mode) ==
    IF tot.some /\ tot.text # <<>>
    THEN LET m == TotalMatch(Lower(tot.text))
         IN  IF m.matched
             THEN IF m.unit \in DOMAIN COUNT_SCALE
                  THEN IntResult(Times(IntOf(m.value), COUNT_SCALE[m.unit]))
                  ELSE Raise("Unrecognized total")
             ELSE Raise("Unrecognized total")
    ELSE IF ~Truthy(p) THEN NoneResult
    ELSE IF mode = "bytes" THEN IntResult(Plain(SumSizes(p.list)))
    ELSE NoneResult


-----------------------------------------------------------------------------
(* The pipeline *)

\* cmdkit.logging.level_by_name, the levels the command line can name
LevelByName == [debug |-> 10, info |-> 20, warning |-> 30]

LogLevels == {"debug", "info", "warning"}

BuffTexts == {<<"1">>, <<"2">>, <<"1", "k">>, <<"0">>, <<"1", "x">>}

TotalTexts == {<<>>, <<"2">>, <<"x">>}

Delays == {0, 1}

IsFile(path) == path \in ExistingFiles

\* mutant of FirstNotFile: the last path that is not a file
LastNotFile(list) ==
    list[CHOOSE i \in DOMAIN list :
            /\ ~IsFile(list[i])
            /\ \A j \in (i + 1)..Len(list) : IsFile(list[j])]

\* check_filepaths: the first path of the list that is not a file
FirstNotFile(list) ==
    list[CHOOSE i \in DOMAIN list :
            /\ ~IsFile(list[i])
            /\ \A j \in 1..(i - 1) : IsFile(list[j])]

\* mutant of pb_stream: the bar is written to standard error at every level
pb_stream_stderr == "stderr"

\* PBar.pb_stream
pb_stream ==
    IF LevelByName[log_level] < LevelByName["warning"] THEN "devnull" ELSE "stderr"

\* tqdm(disable=None, file=f): disabled when f is not a terminal
IsATTY(f) == f = "stderr" /\ stderr_tty

\* what a display attempt of the bar may leave in `drawn`: nothing when the bar
\* is disabled, and nothing before `delay` seconds have passed
Display(now) ==
    IF disable THEN {drawn}
    ELSE IF now THEN {TRUE}
    ELSE {drawn, TRUE}

NumStreams == IF Truthy(paths) THEN Len(paths.list) ELSE 1

StreamName(i) == IF Truthy(paths) THEN paths.list[i] ELSE "<stdin>"

StreamData(i) == IF Truthy(paths) THEN files[paths.list[i]] ELSE stdin_data

\* stream.read(n) at offset p of data: n bytes, or what is left; a size with
\* a unit (base^exp >= 1000) exceeds every stream of the model
Chunk(data, p, n) ==
    LET avail == Len(data) - p
        k == IF n.exp = 0 \/ n.coef = 0 THEN Min(n.coef, avail) ELSE avail
    IN  SubSeq(data, p + 1, p + k)

\* mutant of CountNewlines: a last line without a newline is counted as well
CountLinesStarted(buff) ==
    Cardinality({i \in DOMAIN buff : buff[i] = NL})
        + (IF buff # <<>> /\ buff[Len(buff)] # NL THEN 1 ELSE 0)

\* buff.count(b'\n')
CountNewlines(buff) == Cardinality({i \in DOMAIN buff : buff[i] = NL})

\* the amount handed to progress.update for a chunk
Metric(buff) == IF feed_mode = "bytes" THEN Len(buff) ELSE CountNewlines(buff)

\* mutant of StdoutWrite: the chunk is put in front of what was written
StdoutWritePrepend(o, buff) == buff \o o

\* sys.stdout.buffer.write(buff)
StdoutWrite(o, buff) == o \o buff

AllFiles(list) == \A i \in DOMAIN list : IsFile(list[i])

Named(list) == {list[i] : i \in DOMAIN list}

IsStdin(list) == list = <<>> \/ list = <<"-">>

\* The command line and the file system: the listed files hold at most MaxLen
\* bytes together.  Files the run can never open hold one sample content;
\* standard input holds data only when it is the source.
InitConfig ==
    /\ \E list \in SeqsUpTo(PathNames, MaxPaths) :
        /\ paths = [none |-> FALSE, list |-> list]
        /\ files \in [ExistingFiles -> Contents]
        /\ AllFiles(list) => SumSizes(list) <= MaxLen
        /\ \A f \in ExistingFiles :
              (f \notin Named(list) \/ ~AllFiles(list)) => files[f] = SampleContent
        /\ stdin_data \in Contents
        /\ ~IsStdin(list) => stdin_data = <<>>
    /\ feed_mode \in {"bytes", "lines"}
    /\ buff_size \in BuffTexts
    /\ total \in {[some |-> FALSE, text |-> <<>>]}
                    \cup {[some |-> TRUE, text |-> t] : t \in TotalTexts}
    /\ logging_level \in LogLevels
    /\ delay \in Delays
    /\ stderr_tty \in BOOLEAN

InitRun ==
    /\ pc = "start"
    /\ error = "none"
    /\ errArg = ""
    /\ log_level = "warning"
    /\ bar = "none"
    /\ bar_total = NoneResult
    /\ disable = FALSE
    /\ drawn = FALSE
    /\ description = ""
    /\ advanced = 0
    /\ reader = "unstarted"
    /\ streams = "unstarted"
    /\ cur = 0
    /\ pos = 0
    /\ handles = {}
    /\ opens = 0
    /\ readLog = <<>>
    /\ pending = <<>>
    /\ out = <<>>
    /\ buff_cache = [set |-> FALSE, val |-> Plain(0)]

InitNoParse ==
    /\ ptext = <<>>
    /\ ptable = "none"
    /\ presult = NoneResult

Init == InitConfig /\ InitRun /\ InitNoParse

\* run(): log.setLevel and check_filepaths
CheckFilepaths ==
    /\ pc = "start"
    /\ log_level' = logging_level
    /\ LET p == IF paths.list = <<"-">> /\ ~paths.none
                THEN [none |-> TRUE, list |-> <<>>]
                ELSE paths
       IN  /\ paths' = p
           /\ IF Truthy(p) /\ ~AllFiles(p.list)
              THEN /\ error' = "Not a file"
                   /\ errArg' = FirstNotFile(p.list)
                   /\ pc' = "raising"
              ELSE /\ pc' = "checked"
                   /\ UNCHANGED <<error, errArg>>
    /\ UNCHANGED <<cfgvars, parsevars, bar, bar_total, disable, drawn, description,
                   advanced, reader, streams, cur, pos, handles, opens, readLog,
                   pending, out, buff_cache>>

\* the first next() of the reader: get_total(), pb_stream, tqdm(...)
Construct ==
    /\ pc = "checked"
    /\ LET t == GetTotal(total, paths, feed_mode)
       IN  IF IsError(t)
           THEN /\ error' = t.kind
                /\ pc' = "raising"
                /\ reader' = "finished"
                /\ UNCHANGED <<bar, bar_total, disable, drawn>>
           ELSE /\ bar' = "active"
                /\ bar_total' = t
                /\ disable' = ~IsATTY(pb_stream)
                /\ drawn' = (IsATTY(pb_stream) /\ delay = 0)
                /\ reader' = "running"
                /\ pc' = "iter"
                /\ UNCHANGED error
    /\ UNCHANGED <<cfgvars, parsevars, paths, errArg, log_level, description,
                   advanced, streams, cur, pos, handles, opens, readLog, pending,
                   out, buff_cache>>

\* iter_stream resumed: the file it had yielded is closed, then the next one is
\* opened and yielded and the reader sets the description; after the last
\* stream both generators end and the tqdm context closes the bar
NextStream ==
    /\ pc = "iter"
    /\ IF cur < NumStreams
       THEN /\ cur' = cur + 1
            /\ pos' = 0
            /\ handles' = IF Truthy(paths) THEN {cur + 1} ELSE {}
            /\ opens' = IF Truthy(paths) THEN opens + 1 ELSE opens
            /\ streams' = "suspended"
            /\ description' = StreamName(cur + 1)
            /\ drawn' \in Display(delay = 0)
            /\ pc' = "read"
            /\ UNCHANGED <<bar, reader>>
       ELSE /\ handles' = {}
            /\ streams' = "finished"
            /\ bar' = "closed"
            /\ drawn' \in Display(delay = 0)
            /\ reader' = "finished"
            /\ pc' = "done"
            /\ UNCHANGED <<cur, pos, opens, description>>
    /\ UNCHANGED <<cfgvars, parsevars, paths, error, errArg, log_level, bar_total,
                   disable, advanced, readLog, pending, out, buff_cache>>

\* stream.read(self.buff_size_in_bytes): the size is parsed at the first read;
\* a chunk is counted and yielded, an empty one ends the stream
ReadChunk ==
    /\ pc = "read"
    /\ LET b == IF buff_cache.set THEN IntResult(buff_cache.val)
                ELSE BuffSizeInBytes(buff_size)
       IN  IF IsError(b)
           THEN /\ error' = b.kind
                /\ bar' = "closed"
                /\ drawn' \in Display(delay = 0)
                /\ reader' = "finished"
                /\ pc' = "raising"
                /\ UNCHANGED <<buff_cache, pos, readLog, advanced, pending>>
           ELSE /\ buff_cache' = [set |-> TRUE, val |-> b.val]
                /\ LET buff == Chunk(StreamData(cur), pos, b.val)
                   IN  IF buff = <<>>
                       THEN /\ pc' = "iter"
                            /\ UNCHANGED <<error, bar, drawn, reader, pos, readLog,
                                           advanced, pending>>
                       ELSE /\ pos' = pos + Len(buff)
                            /\ readLog' = readLog \o buff
                            /\ advanced' = advanced + Metric(buff)
                            /\ drawn' \in Display(FALSE)
                            /\ pending' = buff
                            /\ reader' = "suspended"
                            /\ pc' = "write"
                            /\ UNCHANGED <<error, bar>>
    /\ UNCHANGED <<cfgvars, parsevars, paths, errArg, log_level, bar_total, disable,
                   description, streams, cur, handles, opens, out>>

\* stream.read raises: the exception leaves the reader through the tqdm context
ReadFail ==
    /\ pc = "read"
    /\ ~IsError(IF buff_cache.set THEN IntResult(buff_cache.val)
                ELSE BuffSizeInBytes(buff_size))
    /\ buff_cache' = [set |-> TRUE,
                      val |-> IF buff_cache.set THEN buff_cache.val
                              ELSE BuffSizeInBytes(buff_size).val]
    /\ error' = "read failed"
    /\ bar' = "closed"
    /\ drawn' \in Display(delay = 0)
    /\ reader' = "finished"
    /\ pc' = "raising"
    /\ UNCHANGED <<cfgvars, parsevars, paths, errArg, log_level, bar_total, disable,
                   description, advanced, streams, cur, pos, handles, opens,
                   readLog, pending, out>>

\* run(): sys.stdout.buffer.write(buff), then the next next()
Write ==
    /\ pc = "write"
    /\ out' = StdoutWrite(out, pending)
    /\ pending' = <<>>
    /\ reader' = "running"
    /\ pc' = "read"
    /\ UNCHANGED <<cfgvars, parsevars, paths, error, errArg, log_level, bar,
                   bar_total, disable, drawn, description, advanced, streams, cur,
                   pos, handles, opens, readLog, buff_cache>>

\* sys.stdout.buffer.write raises in run(); the reader stays suspended at yield
WriteFail ==
    /\ pc = "write"
    /\ error' = "write failed"
    /\ pc' = "raising"
    /\ UNCHANGED <<cfgvars, parsevars, paths, errArg, log_level, bar, bar_total,
                   disable, drawn, description, advanced, reader, streams, cur, pos,
                   handles, opens, readLog, pending, out, buff_cache>>

\* The abandoned reader is finalized by the interpreter (at once where objects
\* are reference counted, later or never elsewhere): GeneratorExit at the yield
\* leaves through the tqdm context, which closes the bar.
FinalizeReader ==
    /\ pc \in {"raising", "failed"}
    /\ reader = "suspended"
    /\ reader' = "finished"
    /\ bar' = "closed"
    /\ drawn' \in Display(delay = 0)
    /\ UNCHANGED <<cfgvars, parsevars, paths, pc, error, errArg, log_level,
                   bar_total, disable, description, advanced, streams, cur, pos,
                   handles, opens, readLog, pending, out, buff_cache>>

\* The abandoned iter_stream generator is finalized likewise: GeneratorExit at
\* its yield leaves through `with open(...)`, which closes the file.
FinalizeStreams ==
    /\ pc \in {"raising", "failed"}
    /\ reader = "finished"
    /\ streams = "suspended"
    /\ streams' = "finished"
    /\ handles' = {}
    /\ UNCHANGED <<cfgvars, parsevars, paths, pc, error, errArg, log_level, bar,
                   bar_total, disable, drawn, description, advanced, reader, cur,
                   pos, opens, readLog, pending, out, buff_cache>>

\* the exception leaves run()
Leave ==
    /\ pc = "raising"
    /\ pc' = "failed"
    /\ UNCHANGED <<cfgvars, parsevars, paths, error, errArg, log_level, bar,
                   bar_total, disable, drawn, description, advanced, reader,
                   streams, cur, pos, handles, opens, readLog, pending, out,
                   buff_cache>>

Next ==
    \/ CheckFilepaths
    \/ Construct
    \/ NextStream
    \/ ReadChunk
    \/ ReadFail
    \/ Write
    \/ WriteFail
    \/ FinalizeReader
    \/ FinalizeStreams
    \/ Leave

Spec == Init /\ [][Next]_vars


-----------------------------------------------------------------------------
(* The parsers alone *)

Alphabet == {"0", "1", "2", "k", "K", "m", "g", "b", "t", "p", "x", "\n"}

Texts == SeqsUpTo(Alphabet, MaxTextLen)

InitParse ==
    /\ ptext \in Texts
    /\ ptable = "none"
    /\ presult = NoneResult
    /\ paths = [none |-> FALSE, list |-> <<>>]
    /\ feed_mode = "lines"
    /\ buff_size = ptext
    /\ total = [some |-> TRUE, text |-> ptext]
    /\ logging_level = "warning"
    /\ delay = 0
    /\ stderr_tty = TRUE
    /\ files = [f \in ExistingFiles |-> SampleContent]
    /\ stdin_data = <<>>
    /\ InitRun

\* self.buff_size_in_bytes
ParseBuffSize ==
    /\ ptable = "none"
    /\ ptable' = "byte"
    /\ presult' = BuffSizeInBytes(buff_size)
    /\ UNCHANGED <<cfgvars, ptext, paths, pc, error, errArg, log_level, bar,
                   bar_total, disable, drawn, description, advanced, reader,
                   streams, cur, pos, handles, opens, readLog, pending, out,
                   buff_cache>>

\* self.get_total()
ParseTotal ==
    /\ ptable = "none"
    /\ ptable' = "count"
    /\ presult' = GetTotal(total, paths, feed_mode)
    /\ UNCHANGED <<cfgvars, ptext, paths, pc, error, errArg, log_level, bar,
                   bar_total, disable, drawn, description, advanced, reader,
                   streams, cur, pos, handles, opens, readLog, pending, out,
                   buff_cache>>

NextParse ==
    \/ ParseBuffSize
    \/ ParseTotal

SpecParse == InitParse /\ [][NextParse]_vars


-----------------------------------------------------------------------------
(* Properties *)

\* the contents of the first k streams, in argument order
RECURSIVE Concat(_)
Concat(k) == IF k = 0 THEN <<>> ELSE Concat(k - 1) \o StreamData(k)

RECURSIVE NewlinesIn(_)
NewlinesIn(s) ==
    IF s = <<>> THEN 0
    ELSE (IF Head(s) = NL THEN 1 ELSE 0) + NewlinesIn(Tail(s))

\* the buffer size has been parsed and is at least 1
BuffAtLeastOne == buff_cache.set /\ buff_cache.val.coef >= 1

FromFiles == Truthy(paths) /\ AllFiles(paths.list)

ParseErrors == {"Unrecognized total", "Unrecognized buffer size", "Buffer size too large"}

\* C1: with existing files and a buffer size >= 1, in either feed mode, the
\* bytes read so far are the contents of the sources before the current one
\* followed by the consumed part of the current one, every chunk read is
\* written once and in read order (what is written, plus the chunk in hand,
\* is what was read), and when run() completes the output is the
\* concatenation of the files in argument order.
C1_Concatenation ==
    (FromFiles /\ BuffAtLeastOne) =>
        /\ cur >= 1
        /\ readLog = Concat(cur - 1) \o SubSeq(StreamData(cur), 1, pos)
        /\ out \o pending = readLog
        /\ (pc = "done" => out = Concat(NumStreams))

C1_Witness ==
    /\ pc = "done"
    /\ paths.list = <<"a", "b">>
    /\ Len(files["a"]) = 2
    /\ Len(files["b"]) = 1
    /\ buff_size = <<"1">>
    /\ out = files["a"] \o files["b"]

\* C2: a path list that is non-empty, is not ["-"] and names something that
\* is not a file makes run() fail with "Not a file" naming the first such
\* path; no source was opened, nothing was read and nothing was written.
C2_MissingFileFailFast ==
    (~paths.none /\ paths.list # <<>> /\ paths.list # <<"-">> /\ ~AllFiles(paths.list)) =>
        \/ pc = "start"
        \/ /\ pc \in {"raising", "failed"}
           /\ error = "Not a file"
           /\ \E i \in DOMAIN paths.list :
                /\ ~IsFile(paths.list[i])
                /\ \A j \in 1..(i - 1) : IsFile(paths.list[j])
                /\ errArg = paths.list[i]
           /\ opens = 0
           /\ handles = {}
           /\ readLog = <<>>
           /\ out = <<>>

C2_Witness ==
    /\ pc = "failed"
    /\ paths.list = <<"a", "x">>
    /\ files["a"] # <<>>
    /\ error = "Not a file"
    /\ errArg = "x"
    /\ opens = 0

\* the parse the specification describes: <digits><unit letter of the
\* table>?<'b'>?, case-insensitive, the unit letter taking precedence
SpecParseAccepts(text, table) ==
    LET s == Lower(text)
        k == DigitPrefixLen(s)
        rest == SubSeq(s, k + 1, Len(s))
    IN  /\ k >= 1
        /\ \/ rest = <<>>
           \/ rest = <<"b">>
           \/ Len(rest) = 1 /\ rest[1] \in DOMAIN table
           \/ Len(rest) = 2 /\ rest[1] \in DOMAIN table /\ rest[2] = "b"

SpecParseValue(text, table) ==
    LET s == Lower(text)
        k == DigitPrefixLen(s)
        rest == SubSeq(s, k + 1, Len(s))
        unit == IF rest # <<>> /\ rest[1] \in DOMAIN table THEN rest[1] ELSE ""
    IN  Num(IntOf(SubSeq(s, 1, k)), table[unit].base, table[unit].exp)

\* C3: the total handed to the bar is the parsed --total whenever --total is
\* supplied, else unknown for standard input, else the sum of the file sizes
\* in bytes mode, else unknown; it is the same in every state of the run.
C3_Total ==
    bar # "none" =>
        IF total.some
        THEN /\ SpecParseAccepts(total.text, COUNT_SCALE)
             /\ bar_total = IntResult(SpecParseValue(total.text, COUNT_SCALE))
        ELSE IF ~Truthy(paths) THEN bar_total = NoneResult
        ELSE IF feed_mode = "bytes"
             THEN bar_total = IntResult(Plain(Len(Concat(NumStreams))))
        ELSE bar_total = NoneResult

\* C4: in lines mode the cumulative advance is the number of newline bytes
\* read so far, and after the last chunk, for a buffer size >= 1, the number
\* of newline bytes in the concatenation of all inputs.
C4_LineCount ==
    feed_mode = "lines" =>
        /\ advanced = NewlinesIn(readLog)
        /\ (pc = "done" /\ BuffAtLeastOne => advanced = NewlinesIn(Concat(NumStreams)))

C4_Witness ==
    /\ pc = "done"
    /\ feed_mode = "lines"
    /\ paths.list = <<"a", "b">>
    /\ files["a"] = <<120>>
    /\ files["b"] = <<NL, 120>>
    /\ buff_size = <<"1">>
    /\ advanced = 1

\* C5: each parser accepts exactly the strings <digits><unit letter of its
\* table>?<'b'>? and returns digits * table[unit]; every other string is a
\* parse failure.
C5_Parse ==
    ptable # "none" =>
        LET table == IF ptable = "byte" THEN BYTE_SCALE ELSE COUNT_SCALE
        IN  IF SpecParseAccepts(ptext, table)
            THEN presult = IntResult(SpecParseValue(ptext, table))
            ELSE IsError(presult)

\* C6: when standard error is not a terminal, or the logging level is below
\* warning, no progress byte is ever written to standard error, and a run
\* that completes has still written the concatenation of its inputs, advanced
\* by all of it and described its last source.
C6_Suppressed ==
    (~stderr_tty \/ LevelByName[logging_level] < LevelByName["warning"]) =>
        /\ ~drawn
        /\ (pc = "done" /\ BuffAtLeastOne =>
                /\ out = Concat(NumStreams)
                /\ advanced = IF feed_mode = "bytes" THEN Len(Concat(NumStreams))
                              ELSE NewlinesIn(Concat(NumStreams))
                /\ description = StreamName(NumStreams))

C6_Witness ==
    /\ pc = "done"
    /\ stderr_tty
    /\ logging_level = "info"
    /\ delay = 0
    /\ bar = "closed"
    /\ Len(out) >= 2
    /\ advanced >= 1
    /\ ~drawn

C8_ParseErrorBeforeStreaming ==
    error \in ParseErrors =>
        /\ opens = 0
        /\ readLog = <<>>
        /\ out = <<>>
        /\ ~drawn

\* C9: a buffer size that parses to 0 is never used as the read length and
\* the run never completes with it.
C9_ZeroRejected ==
    (BuffSizeInBytes(buff_size).kind = "int" /\ BuffSizeInBytes(buff_size).val.coef = 0) =>
        /\ ~buff_cache.set
        /\ pc # "done"

=============================================================================
